---- MODULE Spec2Model ----
(***************************************************************************)
(* Model of the Dossier API clients: Context7Client (src/context7.py),     *)
(* StackExchangeClient, ErrorParser and the dossier assembly driver        *)
(* (src/stackoverflow.py) and DuxSearchClient (src/dux_search.py).         *)
(*                                                                         *)
(* Python values are tagged records: [t |-> "None"], [t |-> "int", v],     *)
(* [t |-> "float", v] (v in tenths), [t |-> "str", v], [t |-> "bool", v],  *)
(* [t |-> "list", v] (v a sequence) and [t |-> "dict", v] (v a function    *)
(* from key strings to values, its DOMAIN being the keys present).         *)
(***************************************************************************)
EXTENDS Integers, Sequences, FiniteSets, TLC

VARIABLES
    pc,             \* position of the caller: "call", "done", or a driver step
    op,             \* the operation under call
    args,           \* the operation's arguments
    resp,           \* what the transport collaborator does when it is called
    calls,          \* transport calls made by the operation(s) so far
    outcome,        \* how the operation ended: a return value or a raised error
    questions,      \* driver: questions kept from the search
    answers,        \* driver: accepted answers fetched
    answer_map,     \* driver: question_id -> answer
    dossier_items   \* driver: assembled items

vars == <<pc, op, args, resp, calls, outcome, questions, answers, answer_map, dossier_items>>

----------------------------------------------------------------------------
(* Bounds of the model *)

MaxItems == 2       \* items in a Context7 results / snippets array
MaxHits == 6        \* items in an upstream search/advanced response
MaxAnswers == 2     \* items in an upstream answers response
MaxQ == 3           \* questions handed to the assembly
MaxA == 3           \* answers handed to the assembly
MaxFrags == 3       \* fragments concatenated into a classified text

SeqsUpTo(S, n) == UNION {[1..k -> S] : k \in 0..n}

Restrict(f, S) == [k \in S |-> f[k]]

----------------------------------------------------------------------------
(* Python values and the built-ins the clients use *)

PyNone == [t |-> "None"]
PyInt(n) == [t |-> "int", v |-> n]
PyFloat(n) == [t |-> "float", v |-> n]
PyStr(s) == [t |-> "str", v |-> s]
PyBool(b) == [t |-> "bool", v |-> b]
PyList(s) == [t |-> "list", v |-> s]
PyDict(f) == [t |-> "dict", v |-> f]
EmptyDict == PyDict(<<>>)

\* isinstance(x, dict) / isinstance(x, list)
IsDict(x) == x.t = "dict"
IsList(x) == x.t = "list"

\* d.get(key, default) on a dict d
Get(d, key, default) == IF key \in DOMAIN d.v THEN d.v[key] ELSE default

\* bool(x): Python truthiness
Truthy(x) ==
    CASE x.t = "None" -> FALSE
      [] x.t = "bool" -> x.v
      [] x.t = "int" -> x.v # 0
      [] x.t = "float" -> x.v # 0
      [] x.t = "str" -> x.v # ""
      [] x.t = "list" -> Len(x.v) > 0
      [] x.t = "dict" -> DOMAIN x.v # {}
      [] OTHER -> TRUE

\* iter(x): the elements a for loop visits, or TypeError when x is not
\* iterable.  A str yields its characters (the model's strings have at most
\* one character), a dict its keys; neither yields a dict.
Iterate(x) ==
    CASE x.t = "list" -> [ok |-> TRUE, seq |-> x.v]
      [] x.t = "str" -> [ok |-> TRUE, seq |-> IF x.v = "" THEN <<>> ELSE <<PyStr(x.v)>>]
      [] x.t = "dict" ->
            [ok |-> TRUE,
             seq |-> IF DOMAIN x.v = {} THEN <<>>
                     ELSE <<PyStr(CHOOSE k \in DOMAIN x.v : TRUE)>>]
      [] OTHER -> [ok |-> FALSE, seq |-> <<>>]

Ret(v) == [kind |-> "return", value |-> v]
Raise(e) == [kind |-> "raise", error |-> e]
NoOutcome == [kind |-> "none"]

\* The result of running an operation: how it ended and the transport calls made
Ran(o, n) == [outcome |-> o, calls |-> n]

----------------------------------------------------------------------------
(* Transport: what requests.get / StackAPI.fetch / DDGS.text do when called *)

TransportErrors == {"ConnectionError", "HTTPError"}
Failed(e) == [ok |-> FALSE, error |-> e]
InvalidJson == [t |-> "invalid"]
\* an HTTP response that passed raise_for_status: its text and what json() gives
HttpOk(text, json) == [ok |-> TRUE, text |-> text, json |-> json]
\* a value returned by a library call (StackAPI.fetch, DDGS.text)
Fetched(value) == [ok |-> TRUE, value |-> value]
NoResp == [ok |-> FALSE, error |-> "unused"]

----------------------------------------------------------------------------
(* Context7Client (src/context7.py) *)

\* SearchResult(...) built from one item of data["results"]
SearchResultOf(item) ==
    [cls |-> "SearchResult",
     id |-> Get(item, "id", PyStr("")),
     title |-> Get(item, "title", PyStr("")),
     description |-> Get(item, "description", PyStr("")),
     stars |-> Get(item, "stars", PyInt(0)),
     trust_score |-> Get(item, "trustScore", PyFloat(0)),
     versions |-> Get(item, "versions", PyList(<<>>))]

\* the body of the try block of search, once requests.get and
\* raise_for_status have succeeded: json(), then the mapping loop.  item.get on
\* an item that is no dict raises AttributeError, data.get on a top-level value
\* that is no dict does too, and a "results" value that cannot be iterated
\* raises TypeError; none of them is a RequestException, so each leaves the
\* method.  A body that is not JSON makes json() raise JSONDecodeError, which
\* the except clause prints and re-raises.
MapSearch(r) ==
    IF r.json = InvalidJson THEN Raise("JSONDecodeError")
    ELSE IF ~IsDict(r.json) THEN Raise("AttributeError")
    ELSE LET it == Iterate(Get(r.json, "results", PyList(<<>>)))
         IN  IF ~it.ok THEN Raise("TypeError")
             ELSE IF \E i \in 1..Len(it.seq) : ~IsDict(it.seq[i])
                  THEN Raise("AttributeError")
             ELSE Ret(PyList([i \in 1..Len(it.seq) |-> SearchResultOf(it.seq[i])]))

\* a search whose except clause returns an empty list instead of re-raising
Context7Client_search_swallows(r) ==
    IF ~r.ok THEN Ran(Ret(PyList(<<>>)), 1) ELSE Ran(MapSearch(r), 1)

\* Context7Client.search: one requests.get; a RequestException is printed and
\* re-raised
Context7Client_search(r) ==
    IF ~r.ok THEN Ran(Raise(r.error), 1) ELSE Ran(MapSearch(r), 1)

\* a CodeSnippet that reads the language from the wrong key
CodeSnippetOfWrongKey(code_item) ==
    [cls |-> "CodeSnippet",
     language |-> Get(code_item, "lang", PyStr("")),
     code |-> Get(code_item, "code", PyStr(""))]

\* CodeSnippet(...) built from one entry of item["codeList"]
CodeSnippetOf(code_item) ==
    [cls |-> "CodeSnippet",
     language |-> Get(code_item, "language", PyStr("")),
     code |-> Get(code_item, "code", PyStr(""))]

\* the inner loop of get_docs over item.get("codeList", []): the code_list, or
\* the error the loop raises
ParseCodeList(item) ==
    LET it == Iterate(Get(item, "codeList", PyList(<<>>)))
    IN  IF ~it.ok THEN Raise("TypeError")
        ELSE IF \E i \in 1..Len(it.seq) : ~IsDict(it.seq[i]) THEN Raise("AttributeError")
        ELSE Ret(PyList([i \in 1..Len(it.seq) |-> CodeSnippetOf(it.seq[i])]))

\* DocResult(...) built from one item and its parsed code_list
DocResultOf(item, code_list) ==
    [cls |-> "DocResult",
     code_title |-> Get(item, "codeTitle", PyStr("")),
     code_description |-> Get(item, "codeDescription", PyStr("")),
     code_language |-> Get(item, "codeLanguage", PyStr("")),
     code_id |-> Get(item, "codeId", PyStr("")),
     page_title |-> Get(item, "pageTitle", PyStr("")),
     code_list |-> code_list,
     relevance |-> Get(item, "relevance", PyFloat(0))]

\* the outer loop of get_docs over a list: items that are no dict are skipped;
\* the first dict item whose codeList loop raises ends the method with that error
MapDocs(data) ==
    LET recs == SelectSeq(data.v, IsDict)
        parsed == [i \in 1..Len(recs) |-> ParseCodeList(recs[i])]
        bad == {i \in 1..Len(recs) : parsed[i].kind = "raise"}
    IN  IF bad # {}
        THEN parsed[CHOOSE i \in bad : \A j \in bad : i <= j]
        ELSE Ret(PyList([i \in 1..Len(recs) |-> DocResultOf(recs[i], parsed[i].value)]))

\* an unwrapping that indexes "snippets" on every dict, present or not
UnwrapAlways(data) ==
    IF IsDict(data) THEN Get(data, "snippets", PyList(<<>>)) ELSE data

\* the "snippets" envelope of get_docs
Unwrap(data) ==
    IF IsDict(data) /\ "snippets" \in DOMAIN data.v THEN data.v["snippets"] ELSE data

\* Context7Client.get_docs
Context7Client_get_docs(response_type, r) ==
    IF ~r.ok THEN Ran(Raise(r.error), 1)
    ELSE IF response_type = "json"
    THEN IF r.json = InvalidJson THEN Ran(Ret(PyStr(r.text)), 1)
         ELSE LET data == Unwrap(r.json)
              IN  IF ~IsList(data) THEN Ran(Ret(PyStr(r.text)), 1)
                  ELSE Ran(MapDocs(data), 1)
    ELSE Ran(Ret(PyStr(r.text)), 1)

----------------------------------------------------------------------------
(* StackExchangeClient (src/stackoverflow.py) and DuxSearchClient *)

TopN == 5

\* q.get("accepted_answer_id") is not None
HasAcceptedAnswerId(q) == Get(q, "accepted_answer_id", PyNone) # PyNone

\* a filter that takes a missing is_accepted flag for an accepted answer
IsAcceptedByDefault(answer) == Truthy(Get(answer, "is_accepted", PyBool(TRUE)))

\* answer.get("is_accepted", False), as the condition of the comprehension
IsAccepted(answer) == Truthy(Get(answer, "is_accepted", PyBool(FALSE)))

\* a truncation that keeps everything
TopKeepsAll(s) == s

\* filtered_items[:5]
Top(s) == SubSeq(s, 1, IF Len(s) < TopN THEN Len(s) ELSE TopN)

\* StackExchangeClient.search_similar: one stack_api.fetch, the client-side
\* re-check and the truncation; the response dict itself is returned with its
\* "items" replaced.  q.get on an item that is no dict raises AttributeError.
search_similar(r) ==
    IF ~r.ok THEN Ran(Raise(r.error), 1)
    ELSE LET response == r.value
             items == Get(response, "items", PyList(<<>>)).v
         IN  IF \E i \in 1..Len(items) : ~IsDict(items[i])
             THEN Ran(Raise("AttributeError"), 1)
             ELSE Ran(Ret(PyDict([k \in DOMAIN response.v \cup {"items"} |->
                            IF k = "items"
                            THEN PyList(Top(SelectSeq(items, HasAcceptedAnswerId)))
                            ELSE response.v[k]])), 1)

\* get_accepted_answers without its early return on an empty id list
get_accepted_answers_no_guard(question_ids, r) ==
    IF ~r.ok THEN Ran(Raise(r.error), 1)
    ELSE Ran(Ret(PyDict([items |->
            PyList(SelectSeq(Get(r.value, "items", PyList(<<>>)).v, IsAccepted))])), 1)

\* StackExchangeClient.get_accepted_answers
get_accepted_answers(question_ids, r) ==
    IF ~Truthy(question_ids) THEN Ran(Ret(PyDict([items |-> PyList(<<>>)])), 0)
    ELSE IF ~r.ok THEN Ran(Raise(r.error), 1)
    ELSE LET items == Get(r.value, "items", PyList(<<>>)).v
         IN  IF \E i \in 1..Len(items) : ~IsDict(items[i])
             THEN Ran(Raise("AttributeError"), 1)
             ELSE Ran(Ret(PyDict([items |-> PyList(SelectSeq(items, IsAccepted))])), 1)

\* DuxSearchClient.search: the results of the one DDGS.text call, as they are
DuxSearchClient_search(r) ==
    IF ~r.ok THEN Ran(Raise(r.error), 1) ELSE Ran(Ret(r.value), 1)

----------------------------------------------------------------------------
(* The dossier assembly of the driver (src/stackoverflow.py, __main__) *)

\* m[key] = value on a dict held as a function
Put(m, key, value) == [x \in DOMAIN m \cup {key} |-> IF x = key THEN value ELSE m[x]]

\* the dict comprehension, entry by entry: a later answer replaces an earlier
\* one with the same question_id
RECURSIVE AnswerMapFrom(_, _)
AnswerMapFrom(m, as) ==
    IF as = <<>> THEN m
    ELSE AnswerMapFrom(Put(m, Head(as).v["question_id"], Head(as)), Tail(as))

\* a map in which the first answer of a question stays
RECURSIVE FirstWinsFrom(_, _)
FirstWinsFrom(m, as) ==
    IF as = <<>> THEN m
    ELSE FirstWinsFrom(IF Head(as).v["question_id"] \in DOMAIN m THEN m
                       ELSE Put(m, Head(as).v["question_id"], Head(as)), Tail(as))
AnswerMapFirstWins(as) == FirstWinsFrom(<<>>, as)

\* answer_map = {a["question_id"]: a for a in answers}
AnswerMap(as) == AnswerMapFrom(<<>>, as)

\* answer_map.get(key)
MapGet(m, key) == IF key \in DOMAIN m THEN m[key] ELSE PyNone

\* the item appended for question q and its answer a
ItemOf(q, a) ==
    [question |->
        [id |-> q.v["question_id"], title |-> q.v["title"], score |-> q.v["score"],
         link |-> q.v["link"], tags |-> Get(q, "tags", PyList(<<>>))],
     accepted_answer |->
        [id |-> a.v["answer_id"], body |-> Get(a, "body", PyStr("")), score |-> a.v["score"],
         created |-> a.v["creation_date"], link |-> Get(a, "link", q.v["link"])]]

\* a loop that stops at the first question without an answer (break for continue)
RECURSIVE DossierItemsBreak(_, _)
DossierItemsBreak(qs, m) ==
    IF qs = <<>> THEN <<>>
    ELSE LET a == MapGet(m, Head(qs).v["question_id"])
         IN  IF ~Truthy(a) THEN <<>>
             ELSE <<ItemOf(Head(qs), a)>> \o DossierItemsBreak(Tail(qs), m)

\* the loop over the questions: a question without an answer is skipped
RECURSIVE DossierItems(_, _)
DossierItems(qs, m) ==
    IF qs = <<>> THEN <<>>
    ELSE LET a == MapGet(m, Head(qs).v["question_id"])
         IN  IF ~Truthy(a) THEN DossierItems(Tail(qs), m)
             ELSE <<ItemOf(Head(qs), a)>> \o DossierItems(Tail(qs), m)

----------------------------------------------------------------------------
(* The inputs the operations are called with *)

RawTexts == {"raw-a", "raw-b"}

\* items of a Context7 search response
SearchKeys == {"id", "title", "description", "stars", "trustScore", "versions"}
FullSearchItem ==
    [id |-> PyStr("/scikit-learn/scikit-learn"), title |-> PyStr("Scikit-learn"),
     description |-> PyStr("machine learning in Python"), stars |-> PyInt(61913),
     trustScore |-> PyFloat(85), versions |-> PyList(<<PyStr("1.7.1")>>)]
KeySets(keys) == {keys, {}} \cup {keys \ {k} : k \in keys} \cup {{k} : k \in keys}
SearchRecords ==
    {PyDict(Restrict(FullSearchItem, ks)) : ks \in KeySets(SearchKeys)}
        \cup {PyDict([id |-> PyNone, stars |-> PyNone])}
NonRecords == {PyInt(5), PyNone, PyStr("x"), PyList(<<>>)}
SearchItems == SearchRecords \cup NonRecords

SearchBodies ==
    {PyDict([results |-> PyList(s)]) : s \in SeqsUpTo(SearchItems, MaxItems)}
        \cup {EmptyDict, PyDict([results |-> PyNone]), PyDict([results |-> PyStr("x")]),
              PyDict([results |-> PyStr("")]), PyList(<<>>), PyNone, InvalidJson}

\* items of a Context7 documentation response
DocKeys == {"codeTitle", "codeDescription", "codeLanguage", "codeId", "pageTitle",
            "codeList", "relevance"}
FullSnippet == [language |-> PyStr("bash"), code |-> PyStr("make html")]
FullDocItem ==
    [codeTitle |-> PyStr("Build Documentation"), codeDescription |-> PyStr("Builds the HTML"),
     codeLanguage |-> PyStr("bash"), codeId |-> PyStr("#_snippet_23"),
     pageTitle |-> PyStr("Contributing Guide"),
     codeList |-> PyList(<<PyDict(FullSnippet)>>), relevance |-> PyFloat(3)]
WithCodeList(cl) == PyDict([FullDocItem EXCEPT !["codeList"] = cl])
\* records whose codeList, when present, is a list of records
GoodDocRecords ==
    {PyDict(Restrict(FullDocItem, ks)) : ks \in {DocKeys, {}} \cup {DocKeys \ {k} : k \in DocKeys}}
        \cup {WithCodeList(PyList(<<>>)),
              WithCodeList(PyList(<<PyDict([code |-> PyStr("cd doc")]), EmptyDict>>))}
\* records whose codeList is null, no list, or holds an entry that is no record
OddDocRecords ==
    {WithCodeList(PyNone), WithCodeList(PyInt(3)), WithCodeList(PyStr("x")),
     WithCodeList(PyStr("")), WithCodeList(PyList(<<PyDict(FullSnippet), PyInt(7)>>))}
DocItems == GoodDocRecords \cup OddDocRecords \cup NonRecords

DocBodies ==
    {PyList(s) : s \in SeqsUpTo(DocItems, MaxItems)}
        \cup {PyDict([snippets |-> PyList(s)]) : s \in SeqsUpTo(DocItems, MaxItems)}
        \cup {EmptyDict, PyDict([snippets |-> PyNone]), PyDict([snippets |-> EmptyDict]),
              PyDict([error |-> PyStr("x")]), PyNone, PyInt(5), PyStr("x"), InvalidJson}

HttpResponses(bodies) ==
    {Failed(e) : e \in TransportErrors}
        \cup {HttpOk(t, b) : t \in RawTexts, b \in bodies}

\* a question of a search/advanced response: aa says whether accepted_answer_id
\* is an id ("set"), null ("null") or absent ("missing")
Question(qid, aa) ==
    LET base == [question_id |-> PyInt(qid), title |-> PyStr("t"), score |-> PyInt(qid),
                 link |-> PyStr("q-link")]
    IN  CASE aa = "set" ->
                PyDict([k \in DOMAIN base \cup {"accepted_answer_id"} |->
                          IF k = "accepted_answer_id" THEN PyInt(100 + qid) ELSE base[k]])
          [] aa = "null" ->
                PyDict([k \in DOMAIN base \cup {"accepted_answer_id"} |->
                          IF k = "accepted_answer_id" THEN PyNone ELSE base[k]])
          [] OTHER -> PyDict(base)

\* an answer of a questions/{ids}/answers response: acc says whether
\* is_accepted is true, false or absent
Answer(qid, aid, acc) ==
    LET base == [question_id |-> PyInt(qid), answer_id |-> PyInt(aid), score |-> PyInt(aid),
                 creation_date |-> PyInt(1700000000)]
    IN  IF acc = "missing" THEN PyDict(base)
        ELSE PyDict([k \in DOMAIN base \cup {"is_accepted"} |->
                       IF k = "is_accepted" THEN PyBool(acc = "true") ELSE base[k]])

QIds == {1, 2}
Hits == {Question(q, aa) : q \in QIds, aa \in {"set", "null", "missing"}}
UpAnswers == {Answer(q, 100 + q, acc) : q \in QIds, acc \in {"true", "false", "missing"}}

\* what StackAPI.fetch returns: a dict with "items" (and other keys), or not
FetchedLists(S, n) ==
    {Fetched(PyDict([items |-> PyList(s), has_more |-> PyBool(FALSE)])) : s \in SeqsUpTo(S, n)}
        \cup {Fetched(PyDict([has_more |-> PyBool(FALSE)]))}
        \cup {Failed(e) : e \in TransportErrors}

IdLists == {PyList(s) : s \in SeqsUpTo({PyInt(q) : q \in QIds}, 2)} \cup {PyNone}

DuxResponses ==
    {Fetched(PyList(s)) : s \in SeqsUpTo({PyDict([title |-> PyStr("Paris")]),
                                           PyDict([href |-> PyStr("x")])}, 2)}
        \cup {Failed(e) : e \in TransportErrors}

Ops == {"Context7Client.search", "Context7Client.get_docs",
        "StackExchangeClient.search_similar", "StackExchangeClient.get_accepted_answers",
        "DuxSearchClient.search"}

ArgsOf(o) ==
    CASE o = "Context7Client.search" -> {[query |-> "scikit-learn"]}
      [] o = "Context7Client.get_docs" ->
            {[library_path |-> "/scikit-learn/scikit-learn", response_type |-> t] :
                t \in {"json", "txt"}}
      [] o = "StackExchangeClient.search_similar" -> {[query |-> "error", pagesize |-> 15]}
      [] o = "StackExchangeClient.get_accepted_answers" ->
            {[question_ids |-> ids, pagesize |-> n] : ids \in IdLists, n \in {1, 5}}
      [] OTHER -> {[query |-> "capital of France", max_results |-> 5]}

RespOf(o) ==
    CASE o = "Context7Client.search" -> HttpResponses(SearchBodies)
      [] o = "Context7Client.get_docs" -> HttpResponses(DocBodies)
      [] o = "StackExchangeClient.search_similar" -> FetchedLists(Hits, MaxHits)
      [] o = "StackExchangeClient.get_accepted_answers" -> FetchedLists(UpAnswers, MaxAnswers)
      [] OTHER -> DuxResponses

----------------------------------------------------------------------------
(* Specification of the client operations: each is called once, with any   *)
(* arguments and any behaviour of the transport                            *)

DriverIdle ==
    /\ questions = <<>>
    /\ answers = <<>>
    /\ answer_map = <<>>
    /\ dossier_items = <<>>

Init ==
    /\ pc = "call"
    /\ op \in Ops
    /\ args \in ArgsOf(op)
    /\ resp \in RespOf(op)
    /\ calls = 0
    /\ outcome = NoOutcome
    /\ DriverIdle

Finish(ran) ==
    /\ outcome' = ran.outcome
    /\ calls' = calls + ran.calls
    /\ pc' = "done"
    /\ UNCHANGED <<op, args, resp, questions, answers, answer_map, dossier_items>>

CallContext7Search ==
    /\ pc = "call" /\ op = "Context7Client.search"
    /\ Finish(Context7Client_search(resp))

CallContext7GetDocs ==
    /\ pc = "call" /\ op = "Context7Client.get_docs"
    /\ Finish(Context7Client_get_docs(args.response_type, resp))

CallSearchSimilar ==
    /\ pc = "call" /\ op = "StackExchangeClient.search_similar"
    /\ Finish(search_similar(resp))

CallGetAcceptedAnswers ==
    /\ pc = "call" /\ op = "StackExchangeClient.get_accepted_answers"
    /\ Finish(get_accepted_answers(args.question_ids, resp))

CallDuxSearch ==
    /\ pc = "call" /\ op = "DuxSearchClient.search"
    /\ Finish(DuxSearchClient_search(resp))

Next ==
    \/ CallContext7Search
    \/ CallContext7GetDocs
    \/ CallSearchSimilar
    \/ CallGetAcceptedAnswers
    \/ CallDuxSearch

Spec == Init /\ [][Next]_vars

----------------------------------------------------------------------------
(* Properties of the client operations (under Spec) *)

Done(o) == pc = "done" /\ op = o

\* C2: get_accepted_answers called with an empty id list returns
\* {"items": []} and makes no transport call, whatever the pagesize.
C2_EmptyIdsNoTransport ==
    (Done("StackExchangeClient.get_accepted_answers") /\ args.question_ids = PyList(<<>>))
        => /\ outcome = Ret(PyDict([items |-> PyList(<<>>)]))
           /\ calls = 0

C2_Witness ==
    /\ Done("StackExchangeClient.get_accepted_answers")
    /\ args.question_ids = PyList(<<>>)
    /\ args.pagesize = 1
    /\ resp.ok /\ "items" \in DOMAIN resp.value.v /\ Len(resp.value.v["items"].v) > 0
    /\ calls = 0

\* the positions of the upstream items that carry a non-null accepted_answer_id
AcceptedPositions(up) ==
    {i \in 1..Len(up) : "accepted_answer_id" \in DOMAIN up[i].v
                          /\ up[i].v["accepted_answer_id"].t # "None"}
\* the j-th smallest element of a set of positions
Nth(P, j) == CHOOSE i \in P : Cardinality({k \in P : k <= i}) = j

\* C3: search_similar returns at most 5 items, each with a non-null
\* accepted_answer_id, and they are exactly the first min(5, k) of the k
\* upstream items that have one, in upstream order.
C3_FilterAndTruncate ==
    (Done("StackExchangeClient.search_similar") /\ resp.ok)
        => LET up == IF "items" \in DOMAIN resp.value.v THEN resp.value.v["items"].v ELSE <<>>
               P == AcceptedPositions(up)
               k == Cardinality(P)
           IN  /\ outcome.kind = "return"
               /\ LET out == outcome.value.v["items"].v
                  IN  /\ Len(out) <= 5
                      /\ Len(out) = IF k < 5 THEN k ELSE 5
                      /\ \A j \in 1..Len(out) :
                            /\ out[j] = up[Nth(P, j)]
                            /\ out[j].v["accepted_answer_id"].t = "int"

C3_Witness ==
    /\ Done("StackExchangeClient.search_similar") /\ resp.ok
    /\ "items" \in DOMAIN resp.value.v
    /\ Cardinality(AcceptedPositions(resp.value.v["items"].v)) = 6
    /\ Len(resp.value.v["items"].v) = 6
    /\ Len(outcome.value.v["items"].v) = 5

\* C4: get_docs with a successful transport call returns the raw response
\* text, and does not raise, for the plain-text response type always, and for
\* the json response type whenever the body is not JSON or its top-level value
\* (the "snippets" member, when the top level is an object that has one) is
\* not an array.
C4_FallsBackToText ==
    (Done("Context7Client.get_docs") /\ resp.ok)
        => LET top == IF resp.json.t = "dict" /\ "snippets" \in DOMAIN resp.json.v
                      THEN resp.json.v["snippets"] ELSE resp.json
           IN  (args.response_type # "json" \/ resp.json.t = "invalid" \/ top.t # "list")
                   => outcome = Ret(PyStr(resp.text))

C4_Witness ==
    /\ Done("Context7Client.get_docs") /\ resp.ok
    /\ args.response_type = "json"
    /\ resp.json = PyDict([error |-> PyStr("x")])
    /\ outcome = Ret(PyStr("raw-b"))

\* C5: in every operation, a failed transport call ends the operation by
\* raising that failure: no normal result follows it and no second transport
\* call is made.  (Every operation makes exactly one transport call, except
\* get_accepted_answers on an empty id list, which makes none.)
C5_TransportFailureRaised ==
    pc = "done"
        => /\ calls <= 1
           /\ calls = IF op = "StackExchangeClient.get_accepted_answers"
                            /\ args.question_ids \in {PyList(<<>>), PyNone}
                      THEN 0 ELSE 1
           /\ (calls = 1 /\ ~resp.ok) => outcome = Raise(resp.error)

C5_Witness ==
    /\ Done("Context7Client.search")
    /\ resp = Failed("HTTPError")
    /\ calls = 1
    /\ outcome = Raise("HTTPError")

\* key of the input, attribute of the record, documented default
SearchFields ==
    {<<"id", "id", PyStr("")>>, <<"title", "title", PyStr("")>>,
     <<"description", "description", PyStr("")>>, <<"stars", "stars", PyInt(0)>>,
     <<"trustScore", "trust_score", PyFloat(0)>>, <<"versions", "versions", PyList(<<>>)>>}
DocFields ==
    {<<"codeTitle", "code_title", PyStr("")>>, <<"codeDescription", "code_description", PyStr("")>>,
     <<"codeLanguage", "code_language", PyStr("")>>, <<"codeId", "code_id", PyStr("")>>,
     <<"pageTitle", "page_title", PyStr("")>>, <<"relevance", "relevance", PyFloat(0)>>}
SnippetFields == {<<"language", "language", PyStr("")>>, <<"code", "code", PyStr("")>>}

\* the record rec carries, for every mapped field, the item's value or the default
Mapped(item, rec, fields) ==
    \A f \in fields :
        rec[f[2]] = IF f[1] \in DOMAIN item.v THEN item.v[f[1]] ELSE f[3]

AllRecords(s) == \A i \in 1..Len(s) : s[i].t = "dict"
\* the codeList of a doc item, an absent one counting as empty
CodeListOf(item) == IF "codeList" \in DOMAIN item.v THEN item.v["codeList"] ELSE PyList(<<>>)
WellFormedDocs(s) ==
    /\ AllRecords(s)
    /\ \A i \in 1..Len(s) : CodeListOf(s[i]).t = "list" /\ AllRecords(CodeListOf(s[i]).v)

\* the array a successful json get_docs call maps, if the body holds one
DocArray ==
    IF resp.json.t = "dict" /\ "snippets" \in DOMAIN resp.json.v
    THEN resp.json.v["snippets"] ELSE resp.json
\* the array a successful search call maps, if the body holds one
SearchArray ==
    IF resp.json.t = "dict" /\ "results" \in DOMAIN resp.json.v
    THEN resp.json.v["results"] ELSE PyNone

SearchOfArray == Done("Context7Client.search") /\ resp.ok /\ SearchArray.t = "list"
DocsOfArray ==
    /\ Done("Context7Client.get_docs") /\ resp.ok
    /\ args.response_type = "json" /\ DocArray.t = "list"

\* C6: for an array of well-formed items the mapping loops of search and
\* get_docs return one record per item, in order, each field holding the
\* item's value for the mapped key, or the documented default when the key is
\* missing; a missing key never makes the call fail.
C6_WellFormedMapped ==
    /\ (SearchOfArray /\ AllRecords(SearchArray.v))
          => /\ outcome.kind = "return"
             /\ outcome.value.t = "list"
             /\ Len(outcome.value.v) = Len(SearchArray.v)
             /\ \A i \in 1..Len(SearchArray.v) :
                    Mapped(SearchArray.v[i], outcome.value.v[i], SearchFields)
    /\ (DocsOfArray /\ WellFormedDocs(DocArray.v))
          => /\ outcome.kind = "return"
             /\ outcome.value.t = "list"
             /\ Len(outcome.value.v) = Len(DocArray.v)
             /\ \A i \in 1..Len(DocArray.v) :
                    LET item == DocArray.v[i]
                        rec == outcome.value.v[i]
                        cl == CodeListOf(item).v
                    IN  /\ Mapped(item, rec, DocFields)
                        /\ rec.code_list.t = "list"
                        /\ Len(rec.code_list.v) = Len(cl)
                        /\ \A j \in 1..Len(cl) :
                              Mapped(cl[j], rec.code_list.v[j], SnippetFields)

C6_Witness ==
    /\ DocsOfArray /\ WellFormedDocs(DocArray.v)
    /\ Len(DocArray.v) = 2
    /\ "relevance" \notin DOMAIN DocArray.v[1].v
    /\ CodeListOf(DocArray.v[2]) = PyList(<<PyDict([code |-> PyStr("cd doc")]), EmptyDict>>)
    /\ outcome.kind = "return"
    /\ outcome.value.v[1].relevance = PyFloat(0)
    /\ outcome.value.v[2].code_list.v[1].language = PyStr("")

\* C7: for any top-level array, of either kind, the call returns: items that
\* are no record are skipped and the others mapped, also when a codeList is
\* null, is no list, or holds entries that are no records.
C7_NeverThrowsPerItem ==
    /\ SearchOfArray
          => /\ outcome.kind = "return"
             /\ Len(outcome.value.v) <= Len(SearchArray.v)
             /\ Len(outcome.value.v) = Len(SelectSeq(SearchArray.v, IsDict))
    /\ DocsOfArray
          => /\ outcome.kind = "return"
             /\ outcome.value.t = "list"
             /\ Len(outcome.value.v) <= Len(DocArray.v)
             /\ Len(outcome.value.v) = Len(SelectSeq(DocArray.v, IsDict))

----------------------------------------------------------------------------
(* Specification of the assembly alone: any questions, any accepted answers *)

WithKeys(d, extra) ==
    PyDict([k \in DOMAIN d.v \cup DOMAIN extra |-> IF k \in DOMAIN extra THEN extra[k] ELSE d.v[k]])

\* questions 1..3; question 1 carries tags
AsmQuestions ==
    {WithKeys(Question(1, "set"), [tags |-> PyList(<<PyStr("python")>>)]),
     Question(2, "set"), Question(3, "set")}
\* accepted answers to questions 1 and 2 (none to 3); answer 2 carries body and link
AsmAnswers ==
    {Answer(q, 1, "true") : q \in QIds}
        \cup {WithKeys(Answer(q, 2, "true"), [body |-> PyStr("<p>fix</p>"), link |-> PyStr("a-link")]) :
                q \in QIds}

InitAssemble ==
    /\ pc = "map"
    /\ op = "assemble"
    /\ args = <<>>
    /\ resp = NoResp
    /\ calls = 0
    /\ outcome = NoOutcome
    /\ questions \in SeqsUpTo(AsmQuestions, MaxQ)
    /\ answers \in SeqsUpTo(AsmAnswers, MaxA)
    /\ answer_map = <<>>
    /\ dossier_items = <<>>

\* answer_map = {...}
BuildAnswerMap ==
    /\ pc = "map"
    /\ answer_map' = AnswerMap(answers)
    /\ pc' = "assemble"
    /\ UNCHANGED <<op, args, resp, calls, outcome, questions, answers, dossier_items>>

\* dossier_items = [] and the for loop over the questions
Assemble ==
    /\ pc = "assemble"
    /\ dossier_items' = DossierItems(questions, answer_map)
    /\ pc' = "finished"
    /\ UNCHANGED <<op, args, resp, calls, outcome, questions, answers, answer_map>>

NextAssemble == BuildAnswerMap \/ Assemble

SpecAssemble == InitAssemble /\ [][NextAssemble]_vars

\* the positions of the questions whose question_id is that of some answer
Matched(qs, as) ==
    {i \in 1..Len(qs) : \E j \in 1..Len(as) : as[j].v["question_id"] = qs[i].v["question_id"]}

\* C1: the output holds exactly one item for each question whose question_id
\* is the question_id of some answer and none for the others, in the order of
\* the questions; each item pairs its question with an answer to that very
\* question; an unanswered question is dropped and the rest still assembled.
C1_AssembleJoins ==
    pc = "finished"
        => LET M == Matched(questions, answers)
           IN  /\ Len(dossier_items) = Cardinality(M)
               /\ \A k \in 1..Len(dossier_items) :
                     LET q == questions[Nth(M, k)]
                         item == dossier_items[k]
                     IN  /\ item.question.id = q.v["question_id"]
                         /\ item.question.tags = (IF "tags" \in DOMAIN q.v THEN q.v["tags"]
                                                  ELSE PyList(<<>>))
                         /\ \E j \in 1..Len(answers) :
                               /\ answers[j].v["answer_id"] = item.accepted_answer.id
                               /\ answers[j].v["question_id"] = item.question.id

\* an unanswered question stands before and between answered ones
C1_Witness ==
    /\ pc = "finished"
    /\ Len(questions) = 3
    /\ questions[1].v["question_id"] = PyInt(3)
    /\ questions[2].v["question_id"] = PyInt(2)
    /\ questions[3].v["question_id"] = PyInt(1)
    /\ Len(answers) = 2
    /\ Len(dossier_items) = 2
    /\ dossier_items[1].question.id = PyInt(2)

\* the last position of as holding an answer to the question with id qid
LastAnswerTo(as, qid) ==
    CHOOSE j \in 1..Len(as) :
        /\ as[j].v["question_id"] = qid
        /\ \A k \in (j + 1)..Len(as) : as[k].v["question_id"] # qid

\* C9: when several answers share a question_id the one occurring last is
\* kept: the question is paired with that answer, and the output has one item
\* per matched question, not one per duplicate answer.
C9_LastAnswerWins ==
    pc = "finished"
        => /\ Len(dossier_items) = Cardinality(Matched(questions, answers))
           /\ \A k \in 1..Len(dossier_items) :
                 LET a == answers[LastAnswerTo(answers, dossier_items[k].question.id)]
                 IN  /\ dossier_items[k].accepted_answer.id = a.v["answer_id"]
                     /\ dossier_items[k].accepted_answer.link =
                            (IF "link" \in DOMAIN a.v THEN a.v["link"] ELSE PyStr("q-link"))

C9_Witness ==
    /\ pc = "finished"
    /\ Len(answers) = 3
    /\ \A j \in 1..3 : answers[j].v["question_id"] = PyInt(1)
    /\ answers[1].v["answer_id"] = PyInt(2)
    /\ answers[2].v["answer_id"] = PyInt(2)
    /\ answers[3].v["answer_id"] = PyInt(1)
    /\ Len(questions) = 1
    /\ Len(dossier_items) = 1
    /\ dossier_items[1].accepted_answer.id = PyInt(1)

----------------------------------------------------------------------------
(* Specification of the driver: search_similar, get_accepted_answers, the  *)
(* answer map and the assembly, with any behaviour of the transport        *)

\* search/advanced responses: questions 1..n in relevance order, each with an
\* accepted_answer_id or a null one
MainSearchResponses ==
    {Fetched(PyDict([items |-> PyList([i \in 1..n |-> Question(i, f[i])])])) :
        n \in 0..MaxHits, f \in [1..MaxHits -> {"set", "null"}]}
        \cup {Failed(e) : e \in TransportErrors}

\* the answers Answer(i, 100 + i, f[i]) of the questions i with f[i] # "none"
RECURSIVE AnswersOf(_, _)
AnswersOf(f, i) ==
    IF i > MaxHits THEN <<>>
    ELSE (IF f[i] = "none" THEN <<>> ELSE <<Answer(i, 100 + i, f[i])>>) \o AnswersOf(f, i + 1)

\* answers responses: one answer to each question, accepted or not, or any
\* short list of answers to questions 1 and 2
MainAnswerResponses ==
    FetchedLists(UpAnswers, MaxAnswers)
        \cup {Fetched(PyDict([items |-> PyList(AnswersOf(f, 1))])) :
                f \in [1..MaxHits -> {"true", "false"}]}

InitMain ==
    /\ pc = "search"
    /\ op = "main"
    /\ args = [user_query |-> "Getting error when using stackexchange api"]
    /\ resp \in MainSearchResponses
    /\ calls = 0
    /\ outcome = NoOutcome
    /\ DriverIdle

\* Step 1: search_results = client.search_similar(...); questions = its items;
\* exit() when there are none
MainSearch ==
    /\ pc = "search"
    /\ LET ran == search_similar(resp)
       IN  /\ calls' = calls + ran.calls
           /\ outcome' = ran.outcome
           /\ IF ran.outcome.kind = "raise"
              THEN pc' = "crashed" /\ questions' = questions
              ELSE /\ questions' = Get(ran.outcome.value, "items", PyList(<<>>)).v
                   /\ pc' = IF questions' = <<>> THEN "exit" ELSE "answers"
    /\ UNCHANGED <<op, args, resp, answers, answer_map, dossier_items>>

\* Step 2: ids of the questions, client.get_accepted_answers(ids), answers = its items
MainGetAnswers ==
    /\ pc = "answers"
    /\ \E r \in MainAnswerResponses :
          LET ids == [i \in 1..Len(questions) |-> questions[i].v["question_id"]]
              ran == get_accepted_answers(PyList(ids), r)
          IN  /\ resp' = r
              /\ calls' = calls + ran.calls
              /\ outcome' = ran.outcome
              /\ IF ran.outcome.kind = "raise"
                 THEN pc' = "crashed" /\ answers' = answers
                 ELSE /\ answers' = Get(ran.outcome.value, "items", PyList(<<>>)).v
                      /\ pc' = "map"
    /\ UNCHANGED <<op, args, questions, answer_map, dossier_items>>

NextMain == MainSearch \/ MainGetAnswers \/ BuildAnswerMap \/ Assemble

SpecMain == InitMain /\ [][NextMain]_vars

\* the upstream answers whose is_accepted flag is present and true
FlaggedTrue(a) == "is_accepted" \in DOMAIN a.v /\ a.v["is_accepted"] = PyBool(TRUE)

\* C10: get_accepted_answers on a non-empty id list makes exactly one
\* transport call (the driver's second) and returns exactly the upstream
\* answers whose is_accepted flag is true, in upstream order; so every answer
\* of a dossier item is an accepted one, and the items are at most as many as
\* the questions returned, which are at most 5.
C10_OnlyAcceptedAnswers ==
    /\ pc \in {"answers", "map", "assemble", "finished"}
          => Len(questions) \in 1..5
    /\ pc \in {"map", "assemble", "finished"}
          => /\ calls = 2
             /\ resp.ok
             /\ answers = SelectSeq(IF "items" \in DOMAIN resp.value.v
                                    THEN resp.value.v["items"].v ELSE <<>>, FlaggedTrue)
    /\ (pc = "crashed" /\ Len(questions) > 0) => calls = 2 /\ ~resp.ok
    /\ pc = "finished"
          => /\ Len(dossier_items) <= Len(questions)
             /\ \A k \in 1..Len(dossier_items) :
                   \E j \in 1..Len(resp.value.v["items"].v) :
                       LET a == resp.value.v["items"].v[j]
                       IN  /\ FlaggedTrue(a)
                           /\ a.v["answer_id"] = dossier_items[k].accepted_answer.id
                           /\ a.v["question_id"] = dossier_items[k].question.id

\* five questions kept, six answers upstream of which the second is not an
\* accepted one, four items
C10_Witness ==
    /\ pc = "finished"
    /\ Len(questions) = 5
    /\ Len(dossier_items) = 4
    /\ Len(resp.value.v["items"].v) = 6
    /\ ~FlaggedTrue(resp.value.v["items"].v[2])

----------------------------------------------------------------------------
(* ErrorParser.detect_language (src/stackoverflow.py) *)

\* A text is a sequence of characters.  A pattern is a sequence of elements:
\* a character, matched literally, or ".*", matching any run of characters
\* other than newline.

\* LANGUAGE_PATTERNS, in declaration order
LANGUAGE_PATTERNS ==
    <<[lang |-> "python",
       patterns |->
        <<<<"T", "y", "p", "e", "E", "r", "r", "o", "r">>,
          <<"V", "a", "l", "u", "e", "E", "r", "r", "o", "r">>,
          <<"A", "t", "t", "r", "i", "b", "u", "t", "e", "E", "r", "r", "o", "r">>,
          <<"I", "n", "d", "e", "x", "E", "r", "r", "o", "r">>,
          <<"K", "e", "y", "E", "r", "r", "o", "r">>,
          <<"I", "m", "p", "o", "r", "t", "E", "r", "r", "o", "r">>,
          <<"T", "r", "a", "c", "e", "b", "a", "c", "k", " ", "(", "m", "o", "s", "t", " ", "r", "e", "c", "e", "n", "t", " ", "c", "a", "l", "l", " ", "l", "a", "s", "t", ")">>>>],
      [lang |-> "javascript",
       patterns |->
        <<<<"R", "e", "f", "e", "r", "e", "n", "c", "e", "E", "r", "r", "o", "r">>,
          <<"T", "y", "p", "e", "E", "r", "r", "o", "r", ".*", "J", "a", "v", "a", "S", "c", "r", "i", "p", "t">>,
          <<"U", "n", "c", "a", "u", "g", "h", "t">>,
          <<"C", "a", "n", "n", "o", "t", " ", "r", "e", "a", "d", " ", "p", "r", "o", "p", "e", "r", "t", "y">>>>],
      [lang |-> "java",
       patterns |->
        <<<<"N", "u", "l", "l", "P", "o", "i", "n", "t", "e", "r", "E", "x", "c", "e", "p", "t", "i", "o", "n">>,
          <<"A", "r", "r", "a", "y", "I", "n", "d", "e", "x", "O", "u", "t", "O", "f", "B", "o", "u", "n", "d", "s", "E", "x", "c", "e", "p", "t", "i", "o", "n">>,
          <<"C", "l", "a", "s", "s", "N", "o", "t", "F", "o", "u", "n", "d", "E", "x", "c", "e", "p", "t", "i", "o", "n">>>>]>>

\* lower-casing of the ASCII letters, as re.IGNORECASE compares them
UpperToLower ==
    [A |-> "a", B |-> "b", C |-> "c", D |-> "d", E |-> "e", F |-> "f", G |-> "g",
     H |-> "h", I |-> "i", J |-> "j", K |-> "k", L |-> "l", M |-> "m", N |-> "n",
     O |-> "o", P |-> "p", Q |-> "q", R |-> "r", S |-> "s", T |-> "t", U |-> "u",
     V |-> "v", W |-> "w", X |-> "x", Y |-> "y", Z |-> "z"]
Lower(c) == IF c \in DOMAIN UpperToLower THEN UpperToLower[c] ELSE c

\* the pattern from element pi on matches the text from position ti on
RECURSIVE MatchAt(_, _, _, _)
MatchAt(pattern, pi, text, ti) ==
    IF pi > Len(pattern) THEN TRUE
    ELSE IF pattern[pi] = ".*"
    THEN \E k \in ti..(Len(text) + 1) :
            /\ \A x \in ti..(k - 1) : text[x] # "\n"
            /\ MatchAt(pattern, pi + 1, text, k)
    ELSE /\ ti <= Len(text)
         /\ Lower(text[ti]) = Lower(pattern[pi])
         /\ MatchAt(pattern, pi + 1, text, ti + 1)

\* re.search(pattern, error_msg, re.IGNORECASE) finds a match
ReSearch(pattern, text) ==
    \E i \in 1..(Len(text) + 1) : MatchAt(pattern, 1, text, i)

\* the loop over LANGUAGE_PATTERNS.items() from entry i on
RECURSIVE DetectFrom(_, _)
DetectFrom(i, error_msg) ==
    IF i > Len(LANGUAGE_PATTERNS) THEN PyNone
    ELSE IF \E j \in 1..Len(LANGUAGE_PATTERNS[i].patterns) :
                ReSearch(LANGUAGE_PATTERNS[i].patterns[j], error_msg)
         THEN PyStr(LANGUAGE_PATTERNS[i].lang)
         ELSE DetectFrom(i + 1, error_msg)

\* a loop that visits the labels in reverse declaration order
RECURSIVE DetectDownFrom(_, _)
DetectDownFrom(i, error_msg) ==
    IF i < 1 THEN PyNone
    ELSE IF \E j \in 1..Len(LANGUAGE_PATTERNS[i].patterns) :
                ReSearch(LANGUAGE_PATTERNS[i].patterns[j], error_msg)
         THEN PyStr(LANGUAGE_PATTERNS[i].lang)
         ELSE DetectDownFrom(i - 1, error_msg)
detect_language_reversed(error_msg) == DetectDownFrom(Len(LANGUAGE_PATTERNS), error_msg)

\* ErrorParser.detect_language
detect_language(error_msg) == DetectFrom(1, error_msg)

----------------------------------------------------------------------------
(* Specification of the classifier: detect_language applied to any text    *)
(* made of up to MaxFrags fragments, or to one of three sample messages    *)

TextTypeError ==
    <<"T", "y", "p", "e", "E", "r", "r", "o", "r", ":", " ", "u", "n", "s", "u", "p", "p", "o", "r", "t", "e", "d", " ", "o", "p", "e", "r", "a", "n", "d">>
TextUncaught ==
    <<"U", "n", "c", "a", "u", "g", "h", "t", " ", "R", "e", "f", "e", "r", "e", "n", "c", "e", "E", "r", "r", "o", "r", ":", " ", "x", " ", "i", "s", " ", "n", "o", "t", " ", "d", "e", "f", "i", "n", "e", "d">>
TextHello ==
    <<"h", "e", "l", "l", "o", " ", "w", "o", "r", "l", "d">>

Fragments ==
    {<<"T", "y", "p", "e", "E", "r", "r", "o", "r">>,
     <<"t", "y", "p", "e", "e", "r", "r", "o", "r", " ">>,
     <<" ", "J", "a", "v", "a", "S", "c", "r", "i", "p", "t">>,
     <<"\n">>,
     <<"U", "n", "c", "a", "u", "g", "h", "t", " ">>,
     <<"N", "u", "l", "l", "P", "o", "i", "n", "t", "e", "r", "E", "x", "c", "e", "p", "t", "i", "o", "n">>,
     <<"K", "E", "Y", "E", "R", "R", "O", "R">>,
     <<"h", "e", "l", "l", "o", " ">>,
     <<"C", "a", "n", "n", "o", "t", " ", "r", "e", "a", "d", " ", "p", "r", "o", "p", "e", "r", "t">>,
     <<"y", " ", "o", "f", " ", "u", "n", "d", "e", "f", "i", "n", "e", "d">>}

RECURSIVE Concat(_)
Concat(ss) == IF ss = <<>> THEN <<>> ELSE Head(ss) \o Concat(Tail(ss))

Texts ==
    {Concat(fs) : fs \in SeqsUpTo(Fragments, MaxFrags)}
        \cup {TextTypeError, TextUncaught, TextHello}

InitClassify ==
    /\ pc = "call"
    /\ op = "ErrorParser.detect_language"
    /\ args \in {[error_msg |-> text] : text \in Texts}
    /\ resp = NoResp
    /\ calls = 0
    /\ outcome = NoOutcome
    /\ DriverIdle

CallDetectLanguage ==
    /\ pc = "call" /\ op = "ErrorParser.detect_language"
    /\ Finish(Ran(Ret(detect_language(args.error_msg)), 0))

NextClassify == CallDetectLanguage

SpecClassify == InitClassify /\ [][NextClassify]_vars

\* some pattern of the label matches somewhere in the text, letter case aside
LabelHits(label, text) ==
    \E i \in 1..Len(LANGUAGE_PATTERNS) :
        /\ LANGUAGE_PATTERNS[i].lang = label
        /\ \E j \in 1..Len(LANGUAGE_PATTERNS[i].patterns) :
              ReSearch(LANGUAGE_PATTERNS[i].patterns[j], text)

\* the first of python, javascript, java that hits, or the given value
FirstLabel(text, none) ==
    IF LabelHits("python", text) THEN PyStr("python")
    ELSE IF LabelHits("javascript", text) THEN PyStr("javascript")
    ELSE IF LabelHits("java", text) THEN PyStr("java")
    ELSE none

============================================================================
